---- MODULE Spec2Model ----
(***************************************************************************)
(* Model of the expression compiler and the logic combinators of           *)
(* src/find/matchers (mod.rs, logical_matchers.rs, printer.rs).            *)
(*                                                                         *)
(* A matcher is a record [kind, arg, tok, subs]:                           *)
(*   kind  the implementing struct ("And", "Or", "List", "Not", "True",    *)
(*         "False", "Print", "Name", "IName", "Type");                     *)
(*   arg   the constructor argument of a parameterized leaf;               *)
(*   tok   where the node comes from in args (position of the flag for a   *)
(*         leaf, arg_index for a ListMatcher, 0 otherwise);                *)
(*   subs  the owned children, in push order.                              *)
(* Indices into args are 0-based as in the source: args[i] is ArgAt(i).    *)
(***************************************************************************)
EXTENDS Integers, Sequences, FiniteSets, TLC

VARIABLES
  args,         \* the predicate arguments given to build_top_level_matcher
  depth_first,  \* config.depth_first
  frames,       \* the activations of build_matcher_tree, innermost last
  pc,           \* "building", "failed", "built" or "evaluated"; "unit" in UnitSpec
  result,       \* what build_top_level_matcher returned
  tree,         \* the matcher build_matcher_tree returned to it
  output,       \* the lines written to the output sink, oldest first
  entry,        \* the entry of the latest call of matches on the root
  rc,           \* what that call returned
  calls,        \* the nodes that call invoked, in order
  evals,        \* how many entries have been evaluated
  subject,      \* an OrMatcher or ListMatcher that a caller builds by hand
  op            \* the builder operation that caller called last

vars ==
  <<args, depth_first, frames, pc, result, tree, output, entry, rc, calls, evals, subject, op>>

\* ------------------------------------------------------------------ bounds
MaxLen == 3
MaxLogicLen == 5
MaxEvals == 2
MaxCalls == 5

Tokens ==
  {"-print", "-true", "-false", "-name", "abbbc", "-not", "!", "-o", "-or",
   ",", "(", ")", "-d"}

LogicTokens == {"-true", "-false", "-not", "-o", ",", "(", ")"}

\* token sequences taken from the tests of mod.rs, and a few longer ones
Examples ==
  { <<"-true", "-print", "-false", ",", "-print", "-false">>,
    <<"-true", "-o", "-false", "-false">>,
    <<"(", "-true", "-o", "-false", ")", "-false">>,
    <<"-true", "-not", "-false", "-o", "-true">>,
    <<"-true", "-not", "(", "-false", "-o", "-true", ")">>,
    <<"-true", "-o", ",", "-true">>,
    <<"-true", "(", ")", ")">>,
    <<"-true", "(">>,
    <<"-name", "(">>,
    <<"-name", ")">>,
    <<"-iname", "abbbc">>,
    <<"-not", "-name", "doesntexist">>,
    <<"-type", "f">>,
    <<"-type", "abbbc">>,
    <<"-depth", "-true">>,
    <<"-not", "(", "-false", "-print", ")", "-o", "-print">>,
    <<"(", "-false", ",", "-true", ")", "-print", "-o", "-print">> }

SeqsUpTo(S, n) == UNION {[1..k -> S] : k \in 0..n}

Inputs == SeqsUpTo(Tokens, MaxLen) \cup SeqsUpTo(LogicTokens, MaxLogicLen) \cup Examples

\* the directory entries handed to matches (test_data/simple)
Entries == {"abbbc", "ABBBC"}

\* ---------------------------------------------------------------- matchers
Node(kind, arg, tok, subs) == [kind |-> kind, arg |-> arg, tok |-> tok, subs |-> subs]

NoMatcher == Node("None", "", 0, <<>>)

Printer_new(tok) == Node("Print", "", tok, <<>>)
TrueMatcher(tok) == Node("True", "", tok, <<>>)
FalseMatcher(tok) == Node("False", "", tok, <<>>)
NotMatcher_new(submatcher) == Node("Not", "", 0, <<submatcher>>)

AndMatcher_new == Node("And", "", 0, <<>>)

AndMatcher_new_and_condition_front(self, matcher) ==
  [self EXCEPT !.subs = <<matcher>> \o @]

AndMatcher_new_and_condition(self, matcher) ==
  [self EXCEPT !.subs = Append(@, matcher)]

OrMatcher_new == Node("Or", "", 0, <<AndMatcher_new>>)

OrMatcher_new_and_condition_first(self, matcher) ==
  [self EXCEPT !.subs[1] = AndMatcher_new_and_condition(@, matcher)]

OrMatcher_new_and_condition(self, matcher) ==
  [self EXCEPT !.subs[Len(self.subs)] = AndMatcher_new_and_condition(@, matcher)]

ListMatcher_new(arg_index) == Node("List", "", arg_index, <<OrMatcher_new>>)

ListMatcher_new_and_condition(self, matcher) ==
  [self EXCEPT !.subs[Len(self.subs)] = OrMatcher_new_and_condition(@, matcher)]

\* ------------------------------------------------------------------ errors
NoError == [msg |-> "", arg |-> ""]
Error(msg, arg) == [msg |-> msg, arg |-> arg]

MissingArgument == "missing argument to"
ExpectedExpression == "expected an expression after"
NothingBefore == "invalid expression; you have used a binary operator with nothing before it."
TooManyBrackets == "you have too many ')'"
ExpectingBracket == "invalid expression; I was expecting to find a ')' somewhere but did not see one."
UnrecognizedFlag == "Unrecognized flag:"
BadLeafArgument == "leaf constructor failed"

Ok(m) == [ok |-> TRUE, m |-> m, err |-> NoError]
Err(e) == [ok |-> FALSE, m |-> NoMatcher, err |-> e]
Pending == [ok |-> FALSE, m |-> NoMatcher, err |-> NoError]

\* the Err of a method of self, together with self as the call left it
Failed(self, e) == [ok |-> FALSE, m |-> self, err |-> e]

OrMatcher_new_or_condition_nocheck(self, arg) ==
  Ok([self EXCEPT !.subs = Append(@, AndMatcher_new)])

OrMatcher_new_or_condition_pushfirst(self, arg) ==
  LET pushed == [self EXCEPT !.subs = Append(@, AndMatcher_new)]
  IN  IF self.subs[Len(self.subs)].subs = <<>>
        THEN Failed(pushed, Error(NothingBefore, arg))
        ELSE Ok(pushed)

OrMatcher_new_or_condition(self, arg) ==
  IF self.subs[Len(self.subs)].subs = <<>>
    THEN Failed(self, Error(NothingBefore, arg))
    ELSE Ok([self EXCEPT !.subs = Append(@, AndMatcher_new)])

ListMatcher_new_or_condition(self, arg) ==
  LET r == OrMatcher_new_or_condition(self.subs[Len(self.subs)], arg)
  IN  [ok |-> r.ok, m |-> [self EXCEPT !.subs[Len(self.subs)] = r.m], err |-> r.err]

ListMatcher_new_list_condition_nocheck(self) ==
  Ok([self EXCEPT !.subs = Append(@, OrMatcher_new)])

ListMatcher_new_list_condition(self) ==
  LET child_or_matcher == self.subs[Len(self.subs)]
      grandchild_and_matcher == child_or_matcher.subs[Len(child_or_matcher.subs)]
  IN  IF grandchild_and_matcher.subs = <<>>
        THEN Failed(self, Error(NothingBefore, ","))
        ELSE Ok([self EXCEPT !.subs = Append(@, OrMatcher_new)])

\* ------------------------------------------------------------- evaluation
\* The outcome of one call of matches: the value returned, the lines written
\* to the output sink, and the nodes on which matches was called, each named
\* by its path of child positions below the node the call was made on.
Outcome(r, out, cs) == [rc |-> r, out |-> out, calls |-> cs]

RECURSIVE Under(_, _)
Under(k, cs) ==
  IF cs = <<>> THEN <<>> ELSE <<(<<k>> \o Head(cs))>> \o Under(k, Tail(cs))

Lower(s) == IF s = "ABBBC" THEN "abbbc" ELSE s

NameMatcher_matches(self, e) == Outcome(self.arg = e, <<>>, <<(<<>>)>>)
CaselessNameMatcher_matches(self, e) == Outcome(Lower(self.arg) = Lower(e), <<>>, <<(<<>>)>>)
TypeMatcher_matches(self, e) == Outcome(self.arg = "f", <<>>, <<(<<>>)>>)

Printer_matches(self, e) == Outcome(TRUE, <<e>>, <<(<<>>)>>)
TrueMatcher_matches(self, e) == Outcome(TRUE, <<>>, <<(<<>>)>>)
FalseMatcher_matches(self, e) == Outcome(FALSE, <<>>, <<(<<>>)>>)

RECURSIVE Matches(_, _)
RECURSIVE IterAll(_, _, _)
RECURSIVE IterAny(_, _, _)
RECURSIVE ForEach(_, _, _, _)

\* Iterator::all over submatchers, from position k: stops at the first false
IterAll(subs, e, k) ==
  IF k > Len(subs) THEN Outcome(TRUE, <<>>, <<>>)
  ELSE LET r == Matches(subs[k], e)
       IN  IF ~r.rc THEN Outcome(FALSE, r.out, Under(k, r.calls))
           ELSE LET rest == IterAll(subs, e, k + 1)
                IN  Outcome(rest.rc, r.out \o rest.out, Under(k, r.calls) \o rest.calls)

\* Iterator::any over submatchers, from position k: stops at the first true
IterAny(subs, e, k) ==
  IF k > Len(subs) THEN Outcome(FALSE, <<>>, <<>>)
  ELSE LET r == Matches(subs[k], e)
       IN  IF r.rc THEN Outcome(TRUE, r.out, Under(k, r.calls))
           ELSE LET rest == IterAny(subs, e, k + 1)
                IN  Outcome(rest.rc, r.out \o rest.out, Under(k, r.calls) \o rest.calls)

\* the for loop of ListMatcher::matches, from position k with rc so far
ForEach(subs, e, k, sofar) ==
  IF k > Len(subs) THEN Outcome(sofar, <<>>, <<>>)
  ELSE LET r == Matches(subs[k], e)
           rest == ForEach(subs, e, k + 1, r.rc)
       IN  Outcome(rest.rc, r.out \o rest.out, Under(k, r.calls) \o rest.calls)

AndMatcher_matches_noshort(self, e) ==
  LET r == ForEach(self.subs, e, 1, TRUE)
      q == IterAll(self.subs, e, 1)
  IN  Outcome(q.rc, r.out, <<(<<>>)>> \o r.calls)

AndMatcher_matches(self, e) ==
  LET r == IterAll(self.subs, e, 1)
  IN  Outcome(r.rc, r.out, <<(<<>>)>> \o r.calls)

OrMatcher_matches_noshort(self, e) ==
  LET r == ForEach(self.subs, e, 1, FALSE)
      q == IterAny(self.subs, e, 1)
  IN  Outcome(q.rc, r.out, <<(<<>>)>> \o r.calls)

OrMatcher_matches(self, e) ==
  LET r == IterAny(self.subs, e, 1)
  IN  Outcome(r.rc, r.out, <<(<<>>)>> \o r.calls)

ListMatcher_matches_short(self, e) ==
  LET r == IterAll(self.subs, e, 1)
  IN  Outcome(r.rc, r.out, <<(<<>>)>> \o r.calls)

ListMatcher_matches(self, e) ==
  LET r == ForEach(self.subs, e, 1, FALSE)
  IN  Outcome(r.rc, r.out, <<(<<>>)>> \o r.calls)

NotMatcher_matches_same(self, e) ==
  LET r == Matches(self.subs[1], e)
  IN  Outcome(r.rc, r.out, <<(<<>>)>> \o Under(1, r.calls))

NotMatcher_matches(self, e) ==
  LET r == Matches(self.subs[1], e)
  IN  Outcome(~r.rc, r.out, <<(<<>>)>> \o Under(1, r.calls))

\* dynamic dispatch of Matcher::matches
Matches(m, e) ==
  CASE m.kind = "And" -> AndMatcher_matches(m, e)
    [] m.kind = "Or" -> OrMatcher_matches(m, e)
    [] m.kind = "List" -> ListMatcher_matches(m, e)
    [] m.kind = "Not" -> NotMatcher_matches(m, e)
    [] m.kind = "Print" -> Printer_matches(m, e)
    [] m.kind = "True" -> TrueMatcher_matches(m, e)
    [] m.kind = "False" -> FalseMatcher_matches(m, e)
    [] m.kind = "Name" -> NameMatcher_matches(m, e)
    [] m.kind = "IName" -> CaselessNameMatcher_matches(m, e)
    [] m.kind = "Type" -> TypeMatcher_matches(m, e)

RECURSIVE HasSideEffects(_)
RECURSIVE AnySideEffects(_, _)

\* Iterator::any over has_side_effects of the submatchers, from position k
AnySideEffects(subs, k) ==
  IF k > Len(subs) THEN FALSE
  ELSE IF HasSideEffects(subs[k]) THEN TRUE ELSE AnySideEffects(subs, k + 1)

AndMatcher_has_side_effects(self) == AnySideEffects(self.subs, 1)
OrMatcher_has_side_effects(self) == AnySideEffects(self.subs, 1)

ListMatcher_has_side_effects_last(self) == HasSideEffects(self.subs[Len(self.subs)])

ListMatcher_has_side_effects(self) == AnySideEffects(self.subs, 1)

NotMatcher_has_side_effects_none(self) == FALSE

NotMatcher_has_side_effects(self) == HasSideEffects(self.subs[1])

\* dynamic dispatch of Matcher::has_side_effects
HasSideEffects(m) ==
  CASE m.kind = "And" -> AndMatcher_has_side_effects(m)
    [] m.kind = "Or" -> OrMatcher_has_side_effects(m)
    [] m.kind = "List" -> ListMatcher_has_side_effects(m)
    [] m.kind = "Not" -> NotMatcher_has_side_effects(m)
    [] m.kind = "Print" -> TRUE
    [] OTHER -> FALSE

\* ---------------------------------------------------------------- builder
ArgAt(i) == args[i + 1]

are_more_expressions_nobracket(a, index) == index < Len(a) - 1

are_more_expressions(a, index) == (index < Len(a) - 1) /\ a[index + 2] # ")"

\* the leaf factories that live outside matchers/mod.rs
NameMatcher_new(pattern, tok) == Ok(Node("Name", pattern, tok, <<>>))
CaselessNameMatcher_new(pattern, tok) == Ok(Node("IName", pattern, tok, <<>>))
TypeMatcher_new(type_string, tok) ==
  IF type_string \in {"f", "d"}
    THEN Ok(Node("Type", type_string, tok, <<>>))
    ELSE Err(Error(BadLeafArgument, type_string))

LeafFlags == {"-print", "-true", "-false"}
ParamFlags == {"-name", "-iname", "-type"}
NotFlags == {"-not", "!"}
OrFlags == {"-or", "-o"}
DepthFlags == {"-d", "-depth"}
KnownFlags ==
  LeafFlags \cup ParamFlags \cup NotFlags \cup OrFlags \cup DepthFlags \cup {",", "(", ")"}

Frame(arg_index, expecting_bracket) ==
  [top_level_matcher |-> ListMatcher_new(arg_index), i |-> arg_index,
   invert_next_matcher |-> FALSE, expecting_bracket |-> expecting_bracket]

Top == frames[Len(frames)]
Cur == ArgAt(Top.i)
InLoop == pc = "building" /\ Top.i < Len(args)
SetTop(f) == [frames EXCEPT ![Len(frames)] = f]

\* lines 140-148: push the submatcher, inverted if asked for, and step on
PushSubmatcherAlways(f, submatcher) ==
  [f EXCEPT !.top_level_matcher =
              ListMatcher_new_and_condition(@, NotMatcher_new(submatcher)),
            !.invert_next_matcher = FALSE,
            !.i = @ + 1]

PushSubmatcher(f, submatcher) ==
  [f EXCEPT !.top_level_matcher =
              ListMatcher_new_and_condition(@,
                IF f.invert_next_matcher THEN NotMatcher_new(submatcher) ELSE submatcher),
            !.invert_next_matcher = FALSE,
            !.i = @ + 1]

\* lines 39-45: default to printing when nothing has a side effect
AddDefaultPrintAlways(top_level_matcher) ==
  AndMatcher_new_and_condition(
    AndMatcher_new_and_condition(AndMatcher_new, top_level_matcher),
    Printer_new(Len(args) + 1))

AddDefaultPrint(top_level_matcher) ==
  IF ~HasSideEffects(top_level_matcher)
    THEN AndMatcher_new_and_condition(
           AndMatcher_new_and_condition(AndMatcher_new, top_level_matcher),
           Printer_new(Len(args) + 1))
    ELSE top_level_matcher

Fail_partial(msg, arg) ==
  /\ result' = [ok |-> FALSE, m |-> Top.top_level_matcher, err |-> Error(msg, arg)]
  /\ pc' = "failed"
  /\ frames' = <<>>
  /\ UNCHANGED tree

Fail(msg, arg) ==
  /\ result' = Err(Error(msg, arg))
  /\ pc' = "failed"
  /\ frames' = <<>>
  /\ UNCHANGED tree

\* a return of Ok((i, matcher)): into the "(" arm of the caller, or into
\* build_top_level_matcher
Return_resume(i, matcher) ==
  IF Len(frames) = 1
    THEN /\ tree' = matcher
         /\ result' = Ok(AddDefaultPrint(matcher))
         /\ pc' = "built"
         /\ frames' = <<>>
    ELSE /\ frames' = Append(SubSeq(frames, 1, Len(frames) - 2),
                             PushSubmatcher(frames[Len(frames) - 1], matcher))
         /\ UNCHANGED <<pc, result, tree>>

Return(i, matcher) ==
  IF Len(frames) = 1
    THEN /\ tree' = matcher
         /\ result' = Ok(AddDefaultPrint(matcher))
         /\ pc' = "built"
         /\ frames' = <<>>
    ELSE /\ frames' = Append(SubSeq(frames, 1, Len(frames) - 2),
                             PushSubmatcher([frames[Len(frames) - 1] EXCEPT !.i = i], matcher))
         /\ UNCHANGED <<pc, result, tree>>

\* what op holds: the method, its argument, whether it returned Ok, and how
\* many calls were made so far
Call(name, leaf, arg, ok, n) == [name |-> name, leaf |-> leaf, arg |-> arg, ok |-> ok, n |-> n]
NoCall == Call("", NoMatcher, "", TRUE, 0)

Init ==
  /\ args \in Inputs
  /\ depth_first \in BOOLEAN
  /\ frames = <<Frame(0, FALSE)>>
  /\ pc = "building"
  /\ result = Pending
  /\ tree = NoMatcher
  /\ output = <<>>
  /\ entry = ""
  /\ rc = FALSE
  /\ calls = <<>>
  /\ evals = 0
  /\ subject = NoMatcher
  /\ op = NoCall

\* "-print", "-true", "-false"
LeafToken ==
  /\ InLoop /\ Cur \in LeafFlags
  /\ LET submatcher == CASE Cur = "-print" -> Printer_new(Top.i + 1)
                         [] Cur = "-true" -> TrueMatcher(Top.i + 1)
                         [] Cur = "-false" -> FalseMatcher(Top.i + 1)
     IN  frames' = SetTop(PushSubmatcher(Top, submatcher))
  /\ UNCHANGED <<subject, op, args, depth_first, pc, result, tree, output, entry, rc, calls, evals>>

\* "-name", "-iname", "-type"
ParamToken_noskip ==
  /\ InLoop /\ Cur \in ParamFlags
  /\ IF Top.i >= Len(args) - 1
       THEN Fail(MissingArgument, Cur)
       ELSE LET made == CASE Cur = "-name" -> NameMatcher_new(ArgAt(Top.i + 1), Top.i + 1)
                          [] Cur = "-iname" -> CaselessNameMatcher_new(ArgAt(Top.i + 1), Top.i + 1)
                          [] Cur = "-type" -> TypeMatcher_new(ArgAt(Top.i + 1), Top.i + 1)
            IN  IF made.ok
                  THEN /\ frames' = SetTop(PushSubmatcher(Top, made.m))
                       /\ UNCHANGED <<pc, result, tree>>
                  ELSE Fail(made.err.msg, made.err.arg)
  /\ UNCHANGED <<subject, op, args, depth_first, output, entry, rc, calls, evals>>

ParamToken ==
  /\ InLoop /\ Cur \in ParamFlags
  /\ IF Top.i >= Len(args) - 1
       THEN Fail(MissingArgument, Cur)
       ELSE LET made == CASE Cur = "-name" -> NameMatcher_new(ArgAt(Top.i + 1), Top.i + 1)
                          [] Cur = "-iname" -> CaselessNameMatcher_new(ArgAt(Top.i + 1), Top.i + 1)
                          [] Cur = "-type" -> TypeMatcher_new(ArgAt(Top.i + 1), Top.i + 1)
            IN  IF made.ok
                  THEN /\ frames' = SetTop(PushSubmatcher([Top EXCEPT !.i = @ + 1], made.m))
                       /\ UNCHANGED <<pc, result, tree>>
                  ELSE Fail(made.err.msg, made.err.arg)
  /\ UNCHANGED <<subject, op, args, depth_first, output, entry, rc, calls, evals>>

\* "-not", "!"
NotToken ==
  /\ InLoop /\ Cur \in NotFlags
  /\ IF ~are_more_expressions(args, Top.i)
       THEN Fail(ExpectedExpression, Cur)
       ELSE /\ frames' = SetTop([Top EXCEPT !.invert_next_matcher = TRUE, !.i = @ + 1])
            /\ UNCHANGED <<pc, result, tree>>
  /\ UNCHANGED <<subject, op, args, depth_first, output, entry, rc, calls, evals>>

\* "-or", "-o"
OrToken ==
  /\ InLoop /\ Cur \in OrFlags
  /\ IF ~are_more_expressions(args, Top.i)
       THEN Fail(ExpectedExpression, Cur)
       ELSE LET r == ListMatcher_new_or_condition(Top.top_level_matcher, Cur)
            IN  IF r.ok
                  THEN /\ frames' = SetTop([Top EXCEPT !.top_level_matcher = r.m, !.i = @ + 1])
                       /\ UNCHANGED <<pc, result, tree>>
                  ELSE Fail(r.err.msg, r.err.arg)
  /\ UNCHANGED <<subject, op, args, depth_first, output, entry, rc, calls, evals>>

\* ","
ListToken ==
  /\ InLoop /\ Cur = ","
  /\ IF ~are_more_expressions(args, Top.i)
       THEN Fail(ExpectedExpression, Cur)
       ELSE LET r == ListMatcher_new_list_condition(Top.top_level_matcher)
            IN  IF r.ok
                  THEN /\ frames' = SetTop([Top EXCEPT !.top_level_matcher = r.m, !.i = @ + 1])
                       /\ UNCHANGED <<pc, result, tree>>
                  ELSE Fail(r.err.msg, r.err.arg)
  /\ UNCHANGED <<subject, op, args, depth_first, output, entry, rc, calls, evals>>

\* "(": the recursive call
OpenBracket ==
  /\ InLoop /\ Cur = "("
  /\ frames' = Append(frames, Frame(Top.i + 1, TRUE))
  /\ UNCHANGED <<subject, op, args, depth_first, pc, result, tree, output, entry, rc, calls, evals>>

\* ")": the return from the recursive call, and the rest of the caller's
\* iteration
CloseBracket_nocheck ==
  /\ InLoop /\ Cur = ")"
  /\ Return(Top.i, Top.top_level_matcher)
  /\ UNCHANGED <<subject, op, args, depth_first, output, entry, rc, calls, evals>>

CloseBracket ==
  /\ InLoop /\ Cur = ")"
  /\ IF ~Top.expecting_bracket
       THEN Fail(TooManyBrackets, Cur)
       ELSE Return(Top.i, Top.top_level_matcher)
  /\ UNCHANGED <<subject, op, args, depth_first, output, entry, rc, calls, evals>>

\* "-d", "-depth"
DepthToken_noop ==
  /\ InLoop /\ Cur \in DepthFlags
  /\ frames' = SetTop([Top EXCEPT !.i = @ + 1])
  /\ UNCHANGED <<subject, op, args, depth_first, pc, result, tree, output, entry, rc, calls, evals>>

DepthToken ==
  /\ InLoop /\ Cur \in DepthFlags
  /\ depth_first' = TRUE
  /\ frames' = SetTop([Top EXCEPT !.i = @ + 1])
  /\ UNCHANGED <<subject, op, args, pc, result, tree, output, entry, rc, calls, evals>>

UnrecognizedToken ==
  /\ InLoop /\ Cur \notin KnownFlags
  /\ Fail(UnrecognizedFlag, Cur)
  /\ UNCHANGED <<subject, op, args, depth_first, output, entry, rc, calls, evals>>

\* the loop is over: lines 150-154
EndOfArgs ==
  /\ pc = "building" /\ Top.i >= Len(args)
  /\ IF Top.expecting_bracket
       THEN Fail(ExpectingBracket, "")
       ELSE Return(Top.i, Top.top_level_matcher)
  /\ UNCHANGED <<subject, op, args, depth_first, output, entry, rc, calls, evals>>

\* the walker hands one entry to matches of the root
Evaluate(e) ==
  /\ pc \in {"built", "evaluated"} /\ evals < MaxEvals
  /\ LET r == Matches(result.m, e)
     IN  /\ output' = output \o r.out
         /\ rc' = r.rc
         /\ calls' = r.calls
  /\ entry' = e
  /\ evals' = evals + 1
  /\ pc' = "evaluated"
  /\ UNCHANGED <<subject, op, args, depth_first, frames, result, tree>>

Next ==
  \/ LeafToken
  \/ ParamToken
  \/ NotToken
  \/ OrToken
  \/ ListToken
  \/ OpenBracket
  \/ CloseBracket
  \/ DepthToken
  \/ UnrecognizedToken
  \/ EndOfArgs
  \/ \E e \in Entries : Evaluate(e)

Spec == Init /\ [][Next]_vars

\* ------------------------------------------------------------- properties
\* ------------------------------------------- the builder methods by hand
\* A caller makes an OrMatcher or a ListMatcher with new and then calls its
\* builder methods in any order, as the tests of logical_matchers.rs do.
UnitLeaves == {TrueMatcher(0), FalseMatcher(0), Printer_new(0)}

UnitInit ==
  /\ args = <<>>
  /\ depth_first = FALSE
  /\ frames = <<>>
  /\ pc = "unit"
  /\ result = Pending
  /\ tree = NoMatcher
  /\ output = <<>>
  /\ entry = ""
  /\ rc = FALSE
  /\ calls = <<>>
  /\ evals = 0
  /\ subject \in {OrMatcher_new, ListMatcher_new(0)}
  /\ op = NoCall

CallNewAndCondition(leaf) ==
  /\ pc = "unit" /\ op.n < MaxCalls
  /\ subject' = IF subject.kind = "Or"
                  THEN OrMatcher_new_and_condition(subject, leaf)
                  ELSE ListMatcher_new_and_condition(subject, leaf)
  /\ op' = Call("new_and_condition", leaf, "", TRUE, op.n + 1)
  /\ UNCHANGED <<args, depth_first, frames, pc, result, tree, output, entry, rc, calls, evals>>

CallNewOrCondition(arg) ==
  /\ pc = "unit" /\ op.n < MaxCalls
  /\ LET r == IF subject.kind = "Or"
                THEN OrMatcher_new_or_condition(subject, arg)
                ELSE ListMatcher_new_or_condition(subject, arg)
     IN  /\ subject' = r.m
         /\ op' = Call("new_or_condition", NoMatcher, arg, r.ok, op.n + 1)
  /\ UNCHANGED <<args, depth_first, frames, pc, result, tree, output, entry, rc, calls, evals>>

CallNewListCondition ==
  /\ pc = "unit" /\ op.n < MaxCalls
  /\ subject.kind = "List"
  /\ LET r == ListMatcher_new_list_condition(subject)
     IN  /\ subject' = r.m
         /\ op' = Call("new_list_condition", NoMatcher, ",", r.ok, op.n + 1)
  /\ UNCHANGED <<args, depth_first, frames, pc, result, tree, output, entry, rc, calls, evals>>

UnitNext ==
  \/ \E leaf \in UnitLeaves : CallNewAndCondition(leaf)
  \/ \E arg \in OrFlags : CallNewOrCondition(arg)
  \/ CallNewListCondition

UnitSpec == UnitInit /\ [][UnitNext]_vars

\* build_top_level_matcher runs to its return once it is called
BuildStep ==
  \/ LeafToken \/ ParamToken \/ NotToken \/ OrToken \/ ListToken
  \/ OpenBracket \/ CloseBracket \/ DepthToken \/ UnrecognizedToken \/ EndOfArgs

FairSpec == Spec /\ WF_vars(BuildStep)

Built == pc \in {"built", "evaluated"}
Root == result.m

Min(S) == CHOOSE x \in S : \A y \in S : x <= y
Max(S) == CHOOSE x \in S : \A y \in S : x >= y

RECURSIVE SubNodes(_)
SubNodes(n) == {n} \cup UNION {SubNodes(n.subs[k]) : k \in DOMAIN n.subs}

NodesOf(kind) == {n \in SubNodes(Root) : n.kind = kind}

LeafKinds == {"Print", "True", "False", "Name", "IName", "Type"}
LeavesOf(n) == {l \in SubNodes(n) : l.kind \in LeafKinds}
SideEffectLeaves(n) == {l \in LeavesOf(n) : l.kind = "Print"}

\* what the children k..stop of a composite write and invoke when each of
\* them is called once, in push order
RECURSIVE ChildrenEffects(_, _, _, _)
ChildrenEffects(subs, e, k, stop) ==
  IF k > stop THEN [out |-> <<>>, calls |-> <<>>]
  ELSE LET r == Matches(subs[k], e)
           rest == ChildrenEffects(subs, e, k + 1, stop)
       IN  [out |-> r.out \o rest.out, calls |-> Under(k, r.calls) \o rest.calls]

ChildrenReturning(n, e, b) == {k \in DOMAIN n.subs : Matches(n.subs[k], e).rc = b}

\* the children a call invoked directly, in order
Invoked(cs) == SelectSeq(cs, LAMBDA p : Len(p) = 1)
UpTo(stop) == [k \in 1..stop |-> <<k>>]

AndContract(n, e) ==
  LET r == Matches(n, e)
      falses == ChildrenReturning(n, e, FALSE)
      stop == IF falses = {} THEN Len(n.subs) ELSE Min(falses)
      done == ChildrenEffects(n.subs, e, 1, stop)
  IN  /\ r.rc = (falses = {})
      /\ Invoked(r.calls) = UpTo(stop)
      /\ r.calls = <<(<<>>)>> \o done.calls
      /\ r.out = done.out

\* C1: an AndMatcher matches iff every child matches; the children are
\* invoked in push order up to and including the first one that returns
\* false, and nothing after it is invoked or writes anything.
C1_AndMatches ==
  Built => \A n \in NodesOf("And") : \A e \in Entries : AndContract(n, e)

\* an evaluation in which a conjunction stopped in front of a print
C1_Witness ==
  /\ pc = "evaluated" /\ ~rc /\ output = <<>>
  /\ \E n \in NodesOf("And") : \E k \in DOMAIN n.subs :
       /\ k < Len(n.subs)
       /\ ~Matches(n.subs[k], entry).rc
       /\ n.subs[k + 1].kind = "Print"
       /\ \A j \in 1..(k - 1) : Matches(n.subs[j], entry).rc

OrContract(n, e) ==
  LET r == Matches(n, e)
      trues == ChildrenReturning(n, e, TRUE)
      stop == IF trues = {} THEN Len(n.subs) ELSE Min(trues)
      done == ChildrenEffects(n.subs, e, 1, stop)
  IN  /\ r.rc = (trues # {})
      /\ Invoked(r.calls) = UpTo(stop)
      /\ r.calls = <<(<<>>)>> \o done.calls
      /\ r.out = done.out

\* C2: an OrMatcher matches iff some branch matches; the branches are
\* invoked in push order up to and including the first one that returns
\* true, and nothing after it is invoked or writes anything.
C2_OrMatches ==
  Built => \A n \in NodesOf("Or") : \A e \in Entries : OrContract(n, e)

\* an evaluation in which a disjunction stopped in front of a branch that prints
C2_Witness ==
  /\ pc = "evaluated" /\ rc /\ evals = 1
  /\ \E n \in NodesOf("Or") : \E k \in DOMAIN n.subs :
       /\ k < Len(n.subs)
       /\ Matches(n.subs[k], entry).rc
       /\ SideEffectLeaves(n.subs[k + 1]) # {}
       /\ Len(output) = Len(Matches(n, entry).out)
       /\ Len(output) < Len(ChildrenEffects(n.subs, entry, 1, Len(n.subs)).out)

ListContract(n, e) ==
  LET r == Matches(n, e)
      done == ChildrenEffects(n.subs, e, 1, Len(n.subs))
  IN  /\ r.rc = Matches(n.subs[Len(n.subs)], e).rc
      /\ Invoked(r.calls) = UpTo(Len(n.subs))
      /\ r.calls = <<(<<>>)>> \o done.calls
      /\ r.out = done.out

ListExample == <<"-true", "-print", "-false", ",", "-print", "-false">>

\* C3: one call of matches on a ListMatcher invokes every statement exactly
\* once, in push order, whatever the earlier statements returned, and returns
\* what the last statement returned; -true -print -false , -print -false
\* returns false and prints the path twice.
C3_ListMatches ==
  /\ Built => \A n \in NodesOf("List") : \A e \in Entries : ListContract(n, e)
  /\ (pc = "evaluated" /\ evals = 1 /\ args = ListExample) =>
       (~rc /\ output = <<entry, entry>>)

C3_Witness ==
  /\ pc = "evaluated" /\ evals = 1 /\ args = ListExample
  /\ output = <<entry, entry>>
  /\ ~Matches(Root.subs[1], entry).rc

\* C4: has_side_effects of a node is true iff some leaf below it reports
\* side effects, also under a NotMatcher or inside a group, and evaluating
\* entries does not change it.
C4_HasSideEffects ==
  Built => /\ \A n \in SubNodes(Root) : HasSideEffects(n) = (SideEffectLeaves(n) # {})
           /\ HasSideEffects(tree) = (SideEffectLeaves(tree) # {})

\* a print under a negated group, evaluated
C4_Witness ==
  /\ pc = "evaluated"
  /\ \E n \in NodesOf("Not") :
       /\ n.subs[1].kind = "List"
       /\ SideEffectLeaves(n) # {}
       /\ HasSideEffects(n)
  /\ \E n \in SubNodes(Root) : ~HasSideEffects(n)

\* C5: a NotMatcher returns the negation of what its child returns, invokes
\* the child exactly once, so that the child's writes happen, and reports
\* the child's has_side_effects.
C5_NotMatcher ==
  Built => \A n \in NodesOf("Not") :
             /\ HasSideEffects(n) = HasSideEffects(n.subs[1])
             /\ \A e \in Entries :
                  LET r == Matches(n, e)
                      c == Matches(n.subs[1], e)
                  IN  /\ r.rc = ~c.rc
                      /\ Invoked(r.calls) = <<(<<1>>)>>
                      /\ r.calls = <<(<<>>)>> \o Under(1, c.calls)
                      /\ r.out = c.out

\* a negated print was evaluated: the path is written and the result is false
C5_Witness ==
  /\ pc = "evaluated" /\ evals = 1 /\ ~rc /\ output = <<entry>>
  /\ \E n \in NodesOf("Not") : n.subs[1].kind = "Print"

\* C6: when the built tree has no side-effecting leaf the root is the
\* conjunction of the built tree and a print, so the path of an entry is
\* written once if the built tree matches it and not at all otherwise, and
\* the root returns what the built tree returns; when the built tree has a
\* side-effecting leaf the root is the built tree and nothing else prints.
C6_DefaultPrint ==
  /\ Built =>
       IF SideEffectLeaves(tree) = {}
         THEN /\ Root = Node("And", "", 0, <<tree, Printer_new(Len(args) + 1)>>)
              /\ \A e \in Entries :
                   /\ Matches(Root, e).rc = Matches(tree, e).rc
                   /\ Matches(Root, e).out = IF Matches(tree, e).rc THEN <<e>> ELSE <<>>
         ELSE /\ Root = tree
              /\ \A e \in Entries : Matches(Root, e).out = Matches(tree, e).out
  /\ (pc = "evaluated" /\ evals = 1 /\ SideEffectLeaves(tree) = {}) =>
       output = IF rc THEN <<entry>> ELSE <<>>

\* a tree without side effects matched an entry and its path was written once
C6_Witness ==
  /\ pc = "evaluated" /\ evals = 1 /\ rc /\ output = <<entry>>
  /\ SideEffectLeaves(tree) = {} /\ LeavesOf(tree) # {}
  /\ Root # tree

\* ------------------------------------------- precedence, read off the args
ConstTokens == {"-true", "-false", "-o", "-or", ",", "(", ")"}

RECURSIVE DepthBefore(_, _)
\* how many groups are open in front of position k of s
DepthBefore(s, k) ==
  IF k <= 1 THEN 0
  ELSE DepthBefore(s, k - 1) +
       (IF s[k - 1] = "(" THEN 1 ELSE IF s[k - 1] = ")" THEN -1 ELSE 0)

AtTop(s, T) == {k \in DOMAIN s : s[k] \in T /\ DepthBefore(s, k) = 0}

\* the position of the ")" that closes the "(" at position k
Closing(s, k) ==
  Min({j \in DOMAIN s : j > k /\ s[j] = ")" /\ DepthBefore(s, j) = DepthBefore(s, k) + 1})

RECURSIVE ListValue(_)
\* a conjunction: every operand, a constant or a whole group, holds
AndValue(s) ==
  \A k \in AtTop(s, {"-true", "-false", "("}) :
    CASE s[k] = "-true" -> TRUE
      [] s[k] = "-false" -> FALSE
      [] s[k] = "(" -> ListValue(SubSeq(s, k + 1, Closing(s, k) - 1))

\* the parts of s between the separators of T outside every group
Parts(s, T) ==
  LET cuts == {0, Len(s) + 1} \cup AtTop(s, T)
  IN  {SubSeq(s, a + 1, Min({b \in cuts : b > a}) - 1) : a \in cuts \ {Len(s) + 1}}

\* a disjunction holds when one of its conjunctions holds
OrValue(s) == \E part \in Parts(s, {"-o", "-or"}) : AndValue(part)

\* a list has the value of its last statement
ListValue(s) ==
  LET commas == AtTop(s, {","})
      from == IF commas = {} THEN 1 ELSE Max(commas) + 1
  IN  OrValue(SubSeq(s, from, Len(s)))

OverConstants == \A k \in DOMAIN args : args[k] \in ConstTokens

\* C7: over constant leaves the built tree has the value given by find's
\* precedence: juxtaposition binds tighter than -o, -o tighter than ',', and
\* a group is one conjunct; -true -o -false -false is true and
\* ( -true -o -false ) -false is false.
C7_Precedence ==
  /\ (Built /\ OverConstants) => \A e \in Entries : Matches(tree, e).rc = ListValue(args)
  /\ (Built /\ args = <<"-true", "-o", "-false", "-false">>)
       => \A e \in Entries : Matches(Root, e).rc
  /\ (Built /\ args = <<"(", "-true", "-o", "-false", ")", "-false">>)
       => \A e \in Entries : ~Matches(Root, e).rc

\* the grouped example was built and evaluated to false
C7_Witness ==
  /\ pc = "evaluated" /\ ~rc
  /\ args = <<"(", "-true", "-o", "-false", ")", "-false">>
  /\ ListValue(args) = FALSE
  /\ ListValue(<<"-true", "-o", "-false", "-false">>) = TRUE

\* ------------------------------------------------------------- negation
RECURSIVE FlagPositionsFrom(_, _)
\* the positions of a, from k on, that are read as flags and not as the
\* argument of the flag in front of them
FlagPositionsFrom(a, k) ==
  IF k > Len(a) THEN {}
  ELSE {k} \cup FlagPositionsFrom(a, IF a[k] \in ParamFlags THEN k + 2 ELSE k + 1)

FlagPositions == FlagPositionsFrom(args, 1)
NegationPositions == {k \in FlagPositions : args[k] \in NotFlags}
OperandPositions == {k \in FlagPositions : args[k] \in LeafFlags \cup ParamFlags \cup {"("}}

\* the leaf or group that the negation at position k is in front of, 0 when
\* its nesting level ends first
NextOperand(k) ==
  LET later == {j \in OperandPositions : j > k}
      j == Min(later)
  IN  IF later = {} THEN 0
      ELSE IF \E c \in FlagPositions : k < c /\ c < j /\ args[c] = ")" THEN 0
      ELSE j

NegatedOperands == {n.subs[1].tok : n \in {x \in SubNodes(tree) : x.kind = "Not"}}

\* C8: every negation token of an accepted sequence negates exactly one
\* operand, the next leaf or group made at its nesting level, and nothing
\* else is negated.
C8_NegatesOneOperand ==
  Built => /\ \A k \in NegationPositions : NextOperand(k) \in NegatedOperands
           /\ \A j \in NegatedOperands : \E k \in NegationPositions : NextOperand(k) = j

\* ------------------------------------------------------ dangling operators
BinaryFlags == OrFlags \cup {","}

OpenConjunction(list) ==
  LET or == list.subs[Len(list.subs)] IN or.subs[Len(or.subs)]

AtBinaryWithNothingBefore ==
  /\ InLoop /\ Cur \in BinaryFlags
  /\ OpenConjunction(Top.top_level_matcher).subs = <<>>

AtDanglingOperator ==
  /\ InLoop /\ Cur \in NotFlags \cup BinaryFlags
  /\ (Top.i = Len(args) - 1 \/ ArgAt(Top.i + 1) = ")")

FailsWith(msg, arg) == pc' = "failed" /\ result' = Err(Error(msg, arg))

\* C9 as stated: a binary operator met while the open conjunction is empty
\* always fails the build with the 'nothing before it' error that names it.
C9_NothingBeforeAlways ==
  [][AtBinaryWithNothingBefore => FailsWith(NothingBefore, Cur)]_vars

\* C9: a binary operator that is followed by a token other than ')' and is
\* met while the open conjunction of its nesting level is empty fails the
\* build with the 'nothing before it' error naming the operator, and no
\* matcher is returned; -o -true, "," -true and -true -o , -true fail so.
C9_NothingBefore ==
  /\ [][(AtBinaryWithNothingBefore /\ are_more_expressions(args, Top.i))
          => FailsWith(NothingBefore, Cur)]_vars
  /\ [](pc # "building" =>
          /\ args = <<"-o", "-true">> => result = Err(Error(NothingBefore, "-o"))
          /\ args = <<",", "-true">> => result = Err(Error(NothingBefore, ","))
          /\ args = <<"-true", "-o", ",", "-true">> => result = Err(Error(NothingBefore, ",")))

\* "," right after -o was refused
C9_Witness ==
  /\ pc = "failed" /\ result = Err(Error(NothingBefore, ","))
  /\ args = <<"-true", "-o", ",", "-true">>

\* C10: -not, !, -o, -or or ',' met as the last token, or right in front
\* of ')', fails the build with 'expected an expression after' naming the
\* operator, also when nothing precedes the operator.
C10_ExpectedExpression ==
  [][AtDanglingOperator => FailsWith(ExpectedExpression, Cur)]_vars

\* "," with nothing before it and ')' after it was refused for what follows
C10_Witness ==
  /\ pc = "failed" /\ result = Err(Error(ExpectedExpression, ","))
  /\ args = <<"(", ",", ")">>

\* ---------------------------------------------------------------- grouping
\* how many groups the flags in front of position k have left open
BracketDepth(k) ==
  Cardinality({j \in FlagPositions : j < k /\ args[j] = "("})
    - Cardinality({j \in FlagPositions : j < k /\ args[j] = ")"})

Balanced ==
  /\ \A k \in FlagPositions : args[k] = ")" => BracketDepth(k) >= 1
  /\ BracketDepth(Len(args) + 1) = 0

\* C11: only sequences with balanced grouping tokens are accepted: a ')'
\* met at the level that no '(' opened fails the build with "you have too
\* many ')'", the end of the input met at a level that a '(' opened fails it
\* with "I was expecting to find a ')'"; -true ( ) ) and -true ( fail so.
C11_BalancedBrackets ==
  /\ [][(InLoop /\ Cur = ")" /\ Len(frames) = 1) => FailsWith(TooManyBrackets, ")")]_vars
  /\ [][(pc = "building" /\ Top.i >= Len(args) /\ Len(frames) > 1)
          => FailsWith(ExpectingBracket, "")]_vars
  /\ [](Built => Balanced)
  /\ [](pc # "building" =>
          /\ args = <<"-true", "(", ")", ")">> => result = Err(Error(TooManyBrackets, ")"))
          /\ args = <<"-true", "(">> => result = Err(Error(ExpectingBracket, "")))

\* the surplus ')' of -true ( ) ) was refused after the group was closed
C11_Witness ==
  /\ pc = "failed" /\ args = <<"-true", "(", ")", ")">>
  /\ result = Err(Error(TooManyBrackets, ")"))
  /\ ~Balanced

\* the input ended inside a group
C11_WitnessOpen ==
  /\ pc = "failed" /\ args = <<"-true", "(">>
  /\ result = Err(Error(ExpectingBracket, ""))

\* ------------------------------------------------------ parameterized leaves
Unwrapped(n) == IF n.kind = "Not" THEN n.subs[1] ELSE n
LastPushed(list) ==
  LET c == OpenConjunction(list) IN c.subs[Len(c.subs)]

\* the statements, branches and children of the open conjunction of a list
Shape(list) ==
  <<Len(list.subs), Len(list.subs[Len(list.subs)].subs), Len(OpenConjunction(list).subs)>>

\* one leaf made from the flag at the cursor and the token behind it was
\* pushed, and the cursor is behind both
TookArgument ==
  LET before == Top.top_level_matcher
      after == frames'[Len(frames')].top_level_matcher
  IN  /\ pc' = "building" /\ Len(frames') = Len(frames)
      /\ frames'[Len(frames')].i = Top.i + 2
      /\ Shape(after) = <<Shape(before)[1], Shape(before)[2], Shape(before)[3] + 1>>
      /\ Unwrapped(LastPushed(after)).kind \in {"Name", "IName", "Type"}
      /\ Unwrapped(LastPushed(after)).arg = ArgAt(Top.i + 1)
      /\ Unwrapped(LastPushed(after)).tok = Top.i + 1

\* C12: -name, -iname and -type take exactly the token behind them as
\* their argument, whatever its text, and never read it as an operator or a
\* grouping token; without a token behind the flag the build fails with
\* "missing argument to" naming the flag; -name ( and -name ) are built.
C12_LeafArgument ==
  /\ [][(InLoop /\ Cur \in ParamFlags) =>
          IF Top.i >= Len(args) - 1
            THEN FailsWith(MissingArgument, Cur)
            ELSE \/ TookArgument
                 \/ (pc' = "failed" /\ result'.err = Error(BadLeafArgument, ArgAt(Top.i + 1)))]_vars
  /\ [](pc # "building" =>
          /\ args = <<"-name", "(">> => (result.ok /\ LeavesOf(tree) = {Node("Name", "(", 1, <<>>)})
          /\ args = <<"-name", ")">> => (result.ok /\ LeavesOf(tree) = {Node("Name", ")", 1, <<>>)}))

\* -name ) was built into one leaf
C12_Witness ==
  /\ Built /\ args = <<"-name", ")">>
  /\ LeavesOf(tree) = {Node("Name", ")", 1, <<>>)}

\* a flag without its argument was refused
C12_WitnessMissing ==
  /\ pc = "failed" /\ result = Err(Error(MissingArgument, "-name"))
  /\ args[Len(args)] = "-name" /\ Len(args) > 1

\* ------------------------------------------------------------ build errors
BuildErrors ==
  {MissingArgument, ExpectedExpression, NothingBefore, TooManyBrackets, ExpectingBracket,
   UnrecognizedFlag, BadLeafArgument}

\* C13: a build that fails returns one error and no matcher, and nothing
\* was written and no matcher was invoked before or because of it: matches
\* is called only on the root of a build that succeeded.
C13_FailedBuild ==
  /\ [](pc = "failed" =>
          /\ ~result.ok /\ result.m = NoMatcher /\ tree = NoMatcher
          /\ result.err.msg \in BuildErrors
          /\ output = <<>> /\ calls = <<>> /\ evals = 0)
  /\ [](pc = "building" => (result = Pending /\ output = <<>> /\ calls = <<>> /\ evals = 0))
  /\ [][pc = "failed" => UNCHANGED vars]_vars
  /\ [][(output' # output \/ calls' # calls) => (result.ok /\ result' = result)]_vars

\* a build failed after it had made a print leaf, and nothing was printed
C13_Witness ==
  /\ pc = "failed" /\ result.err.msg = TooManyBrackets
  /\ Len(args) = 2 /\ args[1] = "-print"
  /\ output = <<>>

\* ------------------------------------------------- shape of a built matcher
\* the conjunctions of an OrMatcher or a ListMatcher, first to last
RECURSIVE Flat(_, _)
Flat(subs, k) == IF k > Len(subs) THEN <<>> ELSE subs[k].subs \o Flat(subs, k + 1)

Branches(m) == IF m.kind = "Or" THEN m.subs ELSE Flat(m.subs, 1)

\* at least one statement, at least one branch in each, and no empty branch
\* other than the open one
WellShaped(m) ==
  /\ Len(m.subs) >= 1
  /\ m.kind = "List" => \A s \in DOMAIN m.subs : Len(m.subs[s].subs) >= 1
  /\ \A b \in 1..(Len(Branches(m)) - 1) : Branches(m)[b].subs # <<>>

\* the step pushed leaf onto the last branch of the last statement and
\* changed nothing else
PushedOntoOpen(before, after, leaf) ==
  LET n == Len(Branches(before))
  IN  /\ Len(Branches(after)) = n
      /\ \A b \in 1..(n - 1) : Branches(after)[b] = Branches(before)[b]
      /\ Branches(after)[n].subs = Append(Branches(before)[n].subs, leaf)
      /\ Len(after.subs) = Len(before.subs)
      /\ after.kind = "List" =>
           \A s \in DOMAIN after.subs : Len(after.subs[s].subs) = Len(before.subs[s].subs)

\* C14: whatever builder methods were called on a new OrMatcher or
\* ListMatcher, and whether they succeeded or failed, it has at least one
\* branch (statement), only the last branch of the last statement may be
\* empty, and new_and_condition pushes onto that branch.
C14_OpenBranch ==
  /\ [](pc = "unit" => WellShaped(subject))
  /\ [][op'.name = "new_and_condition" => PushedOntoOpen(subject, subject', op'.leaf)]_vars

\* a ListMatcher with several statements and branches, made by MaxCalls calls
C14_Witness ==
  /\ pc = "unit" /\ subject.kind = "List"
  /\ Len(subject.subs) >= 2 /\ Len(Branches(subject)) >= 3
  /\ Branches(subject)[Len(Branches(subject))].subs # <<>>
  /\ op.name = "new_and_condition" /\ op.n = MaxCalls

\* C19: a call of new_or_condition or new_list_condition that returns an
\* error leaves the matcher as it was: the same statements, branches and
\* children, so that the branch a following new_and_condition pushes onto is
\* the one it was before the call.
C19_FailedCallChangesNothing ==
  [][(op'.n = op.n + 1 /\ ~op'.ok) =>
       /\ op'.name \in {"new_or_condition", "new_list_condition"}
       /\ subject' = subject
       /\ Branches(subject') = Branches(subject)
       /\ \A leaf \in UnitLeaves :
            PushedOntoOpen(subject,
                           IF subject.kind = "Or"
                             THEN OrMatcher_new_and_condition(subject', leaf)
                             ELSE ListMatcher_new_and_condition(subject', leaf),
                           leaf)]_vars

\* -o was refused by a ListMatcher that already had a statement
C19_Witness ==
  /\ pc = "unit" /\ ~op.ok /\ op.name = "new_or_condition"
  /\ subject.kind = "List" /\ Len(subject.subs) >= 2
  /\ Branches(subject)[Len(Branches(subject))].subs = <<>>

\* "," was refused right after -o
C19_WitnessList ==
  /\ pc = "unit" /\ ~op.ok /\ op.name = "new_list_condition"
  /\ Len(subject.subs[Len(subject.subs)].subs) >= 2

\* ------------------------------------------------------ empty conjunctions
\* C15 as stated: after a successful build every AndMatcher of the tree
\* owns at least one child.
C15_NoEmptyConjunction ==
  Built => \A n \in NodesOf("And") : n.subs # <<>>

BranchesOfLists == UNION {{Branches(l)[b] : b \in DOMAIN Branches(l)} : l \in NodesOf("List")}

\* C15: after a successful build every AndMatcher of the tree other than
\* the last branch of the last statement of a ListMatcher owns at least one
\* child, at every nesting level; that last branch may own none.
C15_OnlyOpenConjunctionEmpty ==
  Built => /\ \A l \in NodesOf("List") : WellShaped(l)
           /\ NodesOf("And") \subseteq BranchesOfLists \cup {Root}
           /\ Root.kind = "And" => Root.subs # <<>>

\* a built tree whose group is empty next to conjunctions that are not
C15_Witness ==
  /\ Built
  /\ \E l \in NodesOf("List") : l.tok > 0 /\ OpenConjunction(l).subs = <<>>
  /\ \E l \in NodesOf("List") : Len(Branches(l)) >= 2 /\ OpenConjunction(l).subs # <<>>

\* ------------------------------------------------------- evaluation order
RECURSIVE NodeAt(_, _)
\* the node that the path p of child positions leads to from n
NodeAt(n, p) == IF p = <<>> THEN n ELSE NodeAt(n.subs[Head(p)], Tail(p))

\* the leaves among the nodes cs invoked below n, by where they stand in args
LeavesInvoked(n, cs) ==
  LET leaves == SelectSeq(cs, LAMBDA p : NodeAt(n, p).kind \in LeafKinds)
  IN  [k \in DOMAIN leaves |-> NodeAt(n, leaves[k])]

Toks(ls) == [k \in DOMAIN ls |-> ls[k].tok]
Increasing(s) == \A j, k \in DOMAIN s : j < k => s[j] < s[k]
Distinct(s) == \A j, k \in DOMAIN s : j # k => s[j] # s[k]
PrintsInvoked(n, cs) == SelectSeq(LeavesInvoked(n, cs), LAMBDA l : l.kind = "Print")

\* C16: one evaluation of the root invokes leaves in the order of their
\* tokens in args, each at most once, and writes one line for each print
\* it invokes, in that order; the lines of an entry evaluated later come
\* after all lines of the entries evaluated before it.
C16_SourceOrder ==
  /\ [](Built => \A e \in Entries :
          LET r == Matches(Root, e)
          IN  /\ Distinct(r.calls)
              /\ Increasing(Toks(LeavesInvoked(Root, r.calls)))
              /\ r.out = [k \in DOMAIN PrintsInvoked(Root, r.calls) |-> e])
  /\ [][evals' = evals + 1 =>
          /\ result' = result /\ tree' = tree
          /\ Increasing(Toks(LeavesInvoked(Root, calls')))
          /\ output' = output \o [k \in DOMAIN PrintsInvoked(Root, calls') |-> entry']]_vars

\* two entries were evaluated one after the other by a tree with two prints
C16_Witness ==
  /\ pc = "evaluated" /\ evals = 2
  /\ Len(output) = 4 /\ output[1] = output[2] /\ output[3] = output[4] /\ output[2] # output[3]
  /\ Len(LeavesInvoked(Root, calls)) >= 3

\* ------------------------------------------------------------ configuration
AtDepthFlag == InLoop /\ Cur \in DepthFlags

\* C17: -d or -depth, when it is processed, sets depth_first and pushes no
\* matcher; no other step changes depth_first, so that after a build it is
\* true iff it was true before or such a token was processed.
C17_DepthFirst ==
  /\ [][depth_first' = (depth_first \/ AtDepthFlag)]_vars
  /\ [][AtDepthFlag =>
          /\ pc' = "building" /\ Len(frames') = Len(frames)
          /\ frames'[Len(frames')].top_level_matcher = Top.top_level_matcher
          /\ frames'[Len(frames')].invert_next_matcher = Top.invert_next_matcher
          /\ frames'[Len(frames')].i = Top.i + 1]_vars
  /\ [](Built => /\ (\E k \in FlagPositions : args[k] \in DepthFlags) => depth_first
                 /\ \A l \in LeavesOf(tree) : args[l.tok] \notin DepthFlags)

\* -depth -true was built: the flag is set and the tree holds the one leaf
C17_Witness ==
  /\ Built /\ args = <<"-depth", "-true">>
  /\ depth_first
  /\ LeavesOf(tree) = {TrueMatcher(2)}

\* -------------------------------------------------------------- termination
\* the ")" at position k closes the group that the "(" at position o opened
Closes(o, k) ==
  /\ o \in FlagPositions /\ k \in FlagPositions /\ o < k
  /\ args[o] = "(" /\ args[k] = ")"
  /\ BracketDepth(k) = BracketDepth(o) + 1
  /\ \A j \in FlagPositions : (o < j /\ j < k /\ args[j] = ")") => BracketDepth(j) > BracketDepth(o) + 1

\* C18: the builder ends with a matcher or an error: every step moves the
\* cursor of the innermost level forward and no level's cursor back, a call
\* made for the "(" at index i returns at its matching ")" and the caller
\* goes on behind it, so no token is processed twice or by two levels.
C18_Terminates ==
  /\ <>(pc # "building")
  /\ [](pc = "building" => (Top.i <= Len(args) /\ \A k \in DOMAIN frames : frames[k].i <= Top.i))
  /\ [][pc = "building" =>
          \/ pc' # "building"
          \/ /\ frames'[Len(frames')].i > Top.i
             /\ \A k \in DOMAIN frames \cap DOMAIN frames' : frames'[k].i >= frames[k].i]_vars
  /\ [][(InLoop /\ Cur = ")" /\ Len(frames) > 1) =>
          /\ Closes(Top.top_level_matcher.tok, Top.i + 1)
          /\ Len(frames') = Len(frames) - 1
          /\ frames'[Len(frames')].i = Top.i + 1
          /\ frames[Len(frames')].i = Top.top_level_matcher.tok - 1]_vars

\* a nested group was closed and the caller went on to the end of args
C18_Witness ==
  /\ Built /\ Len(args) >= 5
  /\ \E l \in NodesOf("List") : l.tok > 1 /\ \E g \in SubNodes(l) \ {l} : g.kind = "List"

====
